---------------------------- MODULE Spec2Model ----------------------------
(***************************************************************************)
(* A model of mosaic-net: the Channel framing protocol (src/src/channel.rs) *)
(* over one direction of a QUIC bidirectional stream, and the Server        *)
(* accept / shut_down life cycle (src/src/server.rs), the admission of an    *)
(* attempt by IncomingClient::accept with the client behind it               *)
(* (src/src/client.rs), and two Channels of one connection.                  *)
(*                                                                          *)
(* Bytes are naturals 0..255, byte vectors are sequences (1-indexed, so the *)
(* Rust slice partial[4..8] is SubSeq(partial, 5, 8)).                      *)
(***************************************************************************)
EXTENDS Naturals, Sequences, FiniteSets

(***************************************************************************)
(* Bounds of the model.                                                     *)
(***************************************************************************)
\* number of successful writes (Channel::send or a raw peer write) on the stream
MaxWrites == 2
\* number of recv calls that run to completion
MaxRecvs == 3
\* number of Server::accept calls
MaxAccepts == 2
\* number of Server::shut_down calls
MaxShutdowns == 2
\* number of incoming attempts that reach the endpoint
MaxIncoming == 2
\* number of Channels next_channel yields on the connection
MaxChannels == 2

(***************************************************************************)
(* Program constants.                                                       *)
(***************************************************************************)
\* vec![0; 8], while self.bytes_read < 8, message_len < 8
HeaderLen == 8

(***************************************************************************)
(* Frames used as inputs.  Byte 5..8 hold the little-endian total length.   *)
(* The first byte is the message type the external decoder looks at.        *)
(***************************************************************************)
MsgA == <<1, 0, 0, 0, 8, 0, 0, 0>>
MsgB == <<2, 0, 0, 0, 10, 0, 0, 0, 7, 9>>
\* declared total length 7 < 8
BadLenFrame == <<1, 0, 0, 0, 7, 0, 0, 0>>
\* well-formed length, payload the decoder rejects
MalformedFrame == <<0, 0, 0, 0, 9, 0, 0, 0, 5>>

\* what Channel::send can be given: a Message (message.as_bytes())
Messages == {MsgA, MsgB}
\* what a remote peer writing the stream itself can put on it, a whole frame a time
PeerFrames == {MsgA, MsgB, BadLenFrame, MalformedFrame}
\* the frames among them that make recv fail on the framing
FailingFrames == {BadLenFrame, MalformedFrame}

VARIABLES
    \* ---- the stream (send: SendStream on one end, recv: RecvStream on the other)
    written,      \* successful writes so far: [frame, n, op], n bytes of frame written
    fin,          \* the send side was finished
    lost,         \* the connection was lost: reads and writes fail
    rpos,         \* number of stream bytes the RecvStream has handed out
    \* ---- the sending Channel's last return values
    sendRet,      \* last return of Channel::send
    finishRet,    \* last return of Channel::finish
    \* ---- the receiving Channel
    partial,      \* Channel.partial: its leading bytes, up to the last byte written
    partial_len,  \* Channel.partial.len(); the bytes past Len(partial) are all 0
    bytes_read,   \* Channel.bytes_read
    pc,           \* where recv is: "idle" (no call in flight), "hdr", "body"
    results,      \* what the completed recv calls returned, in order
    taken,        \* the frames recv took out of partial (std::mem::replace), in order
    cancelled,    \* the reads ("hdr", "body") at which a recv future was dropped mid-frame
    ones          \* every read so far returned exactly one byte

\* ---- the Server
VARIABLES
    shutting_down,  \* Server.shutting_down
    closed,         \* endpoint.close() calls so far, <<code, reason>> each
    conns,          \* connections of the endpoint not yet drained
    arrived,        \* incoming attempts that reached the endpoint so far
    incoming,       \* incoming attempts queued in the endpoint
    handed,         \* IncomingClients handed to the caller and not yet resolved
    apc,            \* per accept task: position in Server::accept
    aflag,          \* per accept task: the flag when the call was made
    ares,           \* per accept task: what the call returned
    spc,            \* per shutdown task: position in Server::shut_down
    sseen,          \* per shutdown task: the flag value its load returned
    sidle,          \* per shutdown task: was the endpoint idle when it returned
    sflag           \* per shutdown task: the flag when the call was made

\* ---- IncomingClient::accept and the client it admits
VARIABLES
    att             \* per IncomingClient::accept call: the attempt and how far the call is

\* ---- the channels of one connection
VARIABLES
    channels,       \* per Channel next_channel yielded: had a recv of the first Channel failed
    other           \* a second Channel of the same connection and its stream

chanVars == <<written, fin, lost, rpos, sendRet, finishRet, partial, partial_len, bytes_read,
              pc, results, taken, cancelled, ones>>
srvVars == <<shutting_down, closed, conns, arrived, incoming, handed, apc, aflag, ares, spc, sseen,
             sidle, sflag>>
admVars == <<att>>
connVars == <<channels, other>>
vars == <<chanVars, srvVars, admVars, connVars>>

(***************************************************************************)
(* Helpers on byte vectors.                                                 *)
(***************************************************************************)
Min(a, b) == IF a < b THEN a ELSE b

\* vec![0; n]
Zeros(n) == [i \in 1..n |-> 0]

\* u32::from_le_bytes
FromLeBytes(b) == b[1] + b[2] * 256 + b[3] * 65536 + b[4] * 16777216

\* a faulty variant: the length is taken one byte too long
MessageLenPlusOne(p) == FromLeBytes(SubSeq(p, 5, 8)) + 1

\* u32::from_le_bytes(self.partial[4..8]) as usize
MessageLen(p) == FromLeBytes(SubSeq(p, 5, 8))

Max(a, b) == IF a < b THEN b ELSE a

\* Vec::resize(n, 0) on the leading bytes p of a vector: the new length is n, and
\* the leading bytes are cut when n is shorter than they are
Resize(p, n) == IF n < Len(p) THEN SubSeq(p, 1, n) ELSE p

\* the whole vector of length n whose leading bytes are p
Vec(p, n) == [i \in 1..n |-> IF i <= Len(p) THEN p[i] ELSE 0]

\* a faulty variant: the chunk is stored from the start of the buffer, not from offset br
ReadIntoStart(p, br, chunk) ==
    [i \in 1..Max(Len(p), br + Len(chunk)) |->
        IF i <= Len(chunk) THEN chunk[i]
        ELSE IF i <= Len(p) THEN p[i] ELSE 0]

\* RecvStream::read(&mut partial[br..]) that returned Some(Len(chunk)): the chunk
\* is stored from offset br on
ReadInto(p, br, chunk) ==
    [i \in 1..Max(Len(p), br + Len(chunk)) |->
        IF i > br /\ i <= br + Len(chunk) THEN chunk[i - br]
        ELSE IF i <= Len(p) THEN p[i] ELSE 0]

RECURSIVE Flatten(_)
Flatten(ss) == IF ss = <<>> THEN <<>> ELSE Head(ss) \o Flatten(Tail(ss))

\* a recv return value
Res(k, m) == [kind |-> k, msg |-> m]

\* Message::from_bytes(taken)?  (the external decoder: it rejects type 0)
FromBytes(t) == IF t[1] \in {1, 2} THEN Res("Some", t) ELSE Res("MosaicCore", <<>>)

(***************************************************************************)
(* The stream.                                                              *)
(***************************************************************************)
\* every byte written to the stream, in order
WrittenBytes == Flatten([i \in 1..Len(written) |-> SubSeq(written[i].frame, 1, written[i].n)])

\* bytes written and not yet read
Avail == Len(WrittenBytes) - rpos

\* the next n bytes of the stream
NextChunk(n) == SubSeq(WrittenBytes, rpos + 1, rpos + n)

(***************************************************************************)
(* Channel::send, Channel::finish, and a peer writing the stream itself.    *)
(***************************************************************************)
\* how many bytes SendStream::write may accept of a buffer of len bytes:
\* "congestion and flow control may cause this to be shorter than buf.len()"
WriteCounts(len) == 1..len

\* a faulty variant: a finished stream still takes writes
WritableAfterFinish == ~lost

\* SendStream::write on a finished stream or a lost connection is a WriteError
Writable == ~fin /\ ~lost

\* what send returned, and whether the send side had been finished when it was called
SendReturn(kind) == [kind |-> kind, finished |-> fin]

Send(m) ==
    /\ \/ /\ Writable
          /\ Len(written) < MaxWrites
          /\ \E n \in WriteCounts(Len(m)) :
                /\ written' = Append(written, [frame |-> m, n |-> n, op |-> "send"])
                /\ sendRet' = SendReturn("Ok")
       \/ /\ ~Writable
          /\ sendRet' = SendReturn("QuicWrite")
          /\ UNCHANGED written
    /\ UNCHANGED <<fin, lost, rpos, finishRet, partial, partial_len, bytes_read, pc, results,
                   taken, cancelled, ones, srvVars, admVars, connVars>>

Finish ==
    /\ IF fin
         THEN finishRet' = "ChannelAlreadyFinished" /\ UNCHANGED fin
         ELSE finishRet' = "Ok" /\ fin' = TRUE
    /\ UNCHANGED <<written, lost, rpos, sendRet, partial, partial_len, bytes_read, pc, results,
                   taken, cancelled, ones, srvVars, admVars, connVars>>

\* the peer writes a whole frame
PeerWrite(f) ==
    /\ ~fin /\ ~lost
    /\ Len(written) < MaxWrites
    /\ written' = Append(written, [frame |-> f, n |-> Len(f), op |-> "peer"])
    /\ UNCHANGED <<fin, lost, rpos, sendRet, finishRet, partial, partial_len, bytes_read, pc,
                   results, taken, cancelled, ones, srvVars, admVars, connVars>>

\* the peer writes the first n bytes of a message and ends the stream there
PeerAbort(m, n) ==
    /\ ~fin /\ ~lost
    /\ Len(written) < MaxWrites
    /\ written' = Append(written, [frame |-> m, n |-> n, op |-> "peer"])
    /\ fin' = TRUE
    /\ UNCHANGED <<lost, rpos, sendRet, finishRet, partial, partial_len, bytes_read, pc,
                   results, taken, cancelled, ones, srvVars, admVars, connVars>>

ConnectionLost ==
    /\ ~lost
    /\ lost' = TRUE
    /\ UNCHANGED <<written, fin, rpos, sendRet, finishRet, partial, partial_len, bytes_read, pc,
                   results, taken, cancelled, ones, srvVars, admVars, connVars>>

(***************************************************************************)
(* Channel::recv.  pc is "hdr" while the call sits at the read of the       *)
(* header loop and "body" while it sits at the read of the body loop.       *)
(***************************************************************************)
\* a faulty variant: the frame is returned and the framing state is left as it was
FrameDoneNoReset(p, len) ==
    [partial |-> p, partial_len |-> len, bytes_read |-> len,
     pc |-> "idle", out |-> <<FromBytes(Vec(p, len))>>, took |-> <<Vec(p, len)>>]

\* a faulty variant: the frame is decoded first, and a decode error returns before
\* the framing state is reset
FrameDoneDecodeFirst(p, len) ==
    IF FromBytes(Vec(p, len)).kind = "MosaicCore"
      THEN [partial |-> p, partial_len |-> len, bytes_read |-> len,
            pc |-> "idle", out |-> <<FromBytes(Vec(p, len))>>, took |-> <<>>]
      ELSE [partial |-> Zeros(HeaderLen), partial_len |-> HeaderLen, bytes_read |-> 0,
            pc |-> "idle", out |-> <<FromBytes(Vec(p, len))>>, took |-> <<Vec(p, len)>>]

\* the frame is complete: mem::replace, bytes_read = 0, Message::from_bytes
FrameDone(p, len) ==
    [partial |-> Zeros(HeaderLen), partial_len |-> HeaderLen, bytes_read |-> 0,
     pc |-> "idle", out |-> <<FromBytes(Vec(p, len))>>, took |-> <<Vec(p, len)>>]

\* a faulty variant: the bytes are stored and bytes_read is not advanced
GoingNoAdvance(p, len, br, at) ==
    [partial |-> p, partial_len |-> len, bytes_read |-> bytes_read, pc |-> at,
     out |-> <<>>, took |-> <<>>]

\* a call that goes on (pc hdr or body) with the Channel's fields as given
Going(p, len, br, at) ==
    [partial |-> p, partial_len |-> len, bytes_read |-> br, pc |-> at,
     out |-> <<>>, took |-> <<>>]

\* a faulty variant: an invalid length resets the framing state before the error is returned
AfterHeaderResetOnError(p, len, br) ==
    LET message_len == MessageLen(p) IN
    IF message_len < HeaderLen
      THEN [partial |-> Zeros(HeaderLen), partial_len |-> HeaderLen, bytes_read |-> 0,
            pc |-> "idle", out |-> <<Res("InvalidLength", <<>>)>>, took |-> <<>>]
      ELSE LET q == Resize(p, message_len) IN
           IF br < message_len
             THEN Going(q, message_len, br, "body")
             ELSE FrameDone(q, message_len)

\* from the length check on, up to the next read or the return
AfterHeader(p, len, br) ==
    LET message_len == MessageLen(p) IN
    IF message_len < HeaderLen
      THEN [partial |-> p, partial_len |-> len, bytes_read |-> br, pc |-> "idle",
            out |-> <<Res("InvalidLength", <<>>)>>, took |-> <<>>]
      ELSE LET q == Resize(p, message_len) IN
           IF br < message_len
             THEN Going(q, message_len, br, "body")
             ELSE FrameDone(q, message_len)

\* a faulty variant: end of stream inside a frame is reported as a read error
ReturnedAsError(k) ==
    [partial |-> partial, partial_len |-> partial_len, bytes_read |-> bytes_read,
     pc |-> "idle",
     out |-> <<Res(IF k = "None" /\ bytes_read > 0 THEN "QuicRead" ELSE k, <<>>)>>,
     took |-> <<>>]

\* the return of a call that ends at a read: Ok(None) or the read error
Returned(k) ==
    [partial |-> partial, partial_len |-> partial_len, bytes_read |-> bytes_read,
     pc |-> "idle", out |-> <<Res(k, <<>>)>>, took |-> <<>>]

\* a faulty variant: the progress lives in the call and is lost with it
ResumeFromZero == [partial |-> Zeros(HeaderLen), partial_len |-> HeaderLen, bytes_read |-> 0]

\* the state the call resumes from: the Channel's own fields
Resume == [partial |-> partial, partial_len |-> partial_len, bytes_read |-> bytes_read]

Apply(s) ==
    /\ partial' = s.partial
    /\ partial_len' = s.partial_len
    /\ bytes_read' = s.bytes_read
    /\ pc' = s.pc
    /\ results' = results \o s.out
    /\ taken' = taken \o s.took

RecvCall ==
    /\ pc = "idle"
    /\ Len(results) < MaxRecvs
    /\ LET r == Resume IN
       IF r.bytes_read < HeaderLen
         THEN Apply(Going(r.partial, r.partial_len, r.bytes_read, "hdr"))
         ELSE Apply(AfterHeader(r.partial, r.partial_len, r.bytes_read))
    /\ UNCHANGED <<written, fin, lost, rpos, sendRet, finishRet, cancelled, ones, srvVars, admVars, connVars>>

\* self.recv.read(&mut self.partial[self.bytes_read..8]).await?
RecvHeaderRead ==
    /\ pc = "hdr"
    /\ \/ /\ lost
          /\ Apply(Returned("QuicRead"))
          /\ UNCHANGED <<rpos, ones>>
       \/ /\ ~lost /\ Avail = 0 /\ fin
          /\ Apply(Returned("None"))
          /\ UNCHANGED <<rpos, ones>>
       \/ /\ ~lost /\ Avail > 0
          /\ \E n \in 1..Min(HeaderLen - bytes_read, Avail) :
                LET p == ReadInto(partial, bytes_read, NextChunk(n))
                    br == bytes_read + n
                IN /\ rpos' = rpos + n
                   /\ ones' = (ones /\ n = 1)
                   /\ IF br >= HeaderLen
                        THEN Apply(AfterHeader(p, partial_len, br))
                        ELSE Apply(Going(p, partial_len, br, "hdr"))
    /\ UNCHANGED <<written, fin, lost, sendRet, finishRet, cancelled, srvVars, admVars, connVars>>

\* self.recv.read(&mut self.partial[self.bytes_read..]).await?
RecvBodyRead ==
    /\ pc = "body"
    /\ \/ /\ lost
          /\ Apply(Returned("QuicRead"))
          /\ UNCHANGED <<rpos, ones>>
       \/ /\ ~lost /\ Avail = 0 /\ fin
          /\ Apply(Returned("None"))
          /\ UNCHANGED <<rpos, ones>>
       \/ /\ ~lost /\ Avail > 0
          /\ \E n \in 1..Min(partial_len - bytes_read, Avail) :
                LET p == ReadInto(partial, bytes_read, NextChunk(n))
                    br == bytes_read + n
                IN /\ rpos' = rpos + n
                   /\ ones' = (ones /\ n = 1)
                   /\ IF br >= MessageLen(p)
                        THEN Apply(FrameDone(p, partial_len))
                        ELSE Apply(Going(p, partial_len, br, "body"))
    /\ UNCHANGED <<written, fin, lost, sendRet, finishRet, cancelled, srvVars, admVars, connVars>>

\* the recv future is dropped at a suspended read
Cancel ==
    /\ pc \in {"hdr", "body"}
    /\ pc' = "idle"
    /\ cancelled' = IF bytes_read > 0 THEN cancelled \cup {pc} ELSE cancelled
    /\ UNCHANGED <<written, fin, lost, rpos, sendRet, finishRet, partial, partial_len, bytes_read,
                   results, taken, ones, srvVars, admVars, connVars>>

ChanInit ==
    /\ written = <<>>
    /\ fin = FALSE
    /\ lost = FALSE
    /\ rpos = 0
    /\ sendRet = [kind |-> "none", finished |-> FALSE]
    /\ finishRet = "none"
    /\ partial = Zeros(HeaderLen)
    /\ partial_len = HeaderLen
    /\ bytes_read = 0
    /\ pc = "idle"
    /\ results = <<>>
    /\ taken = <<>>
    /\ cancelled = {}
    /\ ones = TRUE

SrvInit ==
    /\ shutting_down = FALSE
    /\ closed = <<>>
    /\ conns = 0
    /\ arrived = 0
    /\ incoming = 0
    /\ handed = 0
    /\ apc = <<>>
    /\ aflag = <<>>
    /\ ares = <<>>
    /\ spc = <<>>
    /\ sseen = <<>>
    /\ sidle = <<>>
    /\ sflag = <<>>

(***************************************************************************)
(* The endpoint: attempts arrive, handed-out attempts become connections,   *)
(* connections drain.                                                       *)
(***************************************************************************)
\* endpoint.close() was called
EndpointClosed == closed # <<>>

\* a new attempt reaches the endpoint; a closed endpoint takes no new ones
Arrive ==
    /\ ~EndpointClosed
    /\ arrived < MaxIncoming
    /\ arrived' = arrived + 1
    /\ incoming' = incoming + 1
    /\ UNCHANGED <<shutting_down, closed, conns, handed, apc, aflag, ares, spc, sseen,
                   sidle, sflag, chanVars, admVars, connVars>>

\* IncomingClient::accept: self.0.accept() makes the attempt a connection of the
\* endpoint, or the attempt is resolved without one
Establish ==
    /\ handed > 0
    /\ handed' = handed - 1
    /\ \/ conns' = conns + 1
       \/ UNCHANGED conns
    /\ UNCHANGED <<shutting_down, closed, arrived, incoming, apc, aflag, ares, spc, sseen,
                   sidle, sflag, chanVars, admVars, connVars>>

\* a connection of the endpoint is closed and drained
Drain ==
    /\ conns > 0
    /\ conns' = conns - 1
    /\ UNCHANGED <<shutting_down, closed, arrived, incoming, handed, apc, aflag, ares, spc,
                   sseen, sidle, sflag, chanVars, admVars, connVars>>

(***************************************************************************)
(* Server::accept, one task per call.                                       *)
(***************************************************************************)
\* a faulty variant: accept looks at the endpoint, not at the flag
IsShuttingDownByEndpoint == EndpointClosed

\* self.shutting_down.load(Ordering::Acquire)
IsShuttingDown == shutting_down

\* the call is made: the future exists and has not run yet
AcceptCall ==
    /\ Len(apc) < MaxAccepts
    /\ apc' = Append(apc, "start")
    /\ aflag' = Append(aflag, shutting_down)
    /\ ares' = Append(ares, "none")
    /\ UNCHANGED <<shutting_down, closed, conns, arrived, incoming, handed, spc, sseen,
                   sidle, sflag, chanVars, admVars, connVars>>

\* if self.is_shutting_down() { return Err(ShuttingDown) }, else on to the await
AcceptCheck(t) ==
    /\ apc[t] = "start"
    /\ IF IsShuttingDown
         THEN /\ apc' = [apc EXCEPT ![t] = "done"]
              /\ ares' = [ares EXCEPT ![t] = "ShuttingDown"]
         ELSE /\ apc' = [apc EXCEPT ![t] = "waiting"]
              /\ UNCHANGED ares
    /\ UNCHANGED <<shutting_down, closed, conns, arrived, incoming, handed, aflag, spc,
                   sseen, sidle, sflag, chanVars, admVars, connVars>>

\* what a pending endpoint.accept() that yields None is turned into
ClosedError == "EndpointIsClosed"

\* a faulty variant: no attempt is handed out while an earlier one is unresolved
AcceptWakeSerial(t) ==
    /\ apc[t] = "waiting"
    /\ \/ /\ incoming > 0
          /\ handed = 0
          /\ \A a \in 1..Len(att) : att[a].st = "done"
          /\ incoming' = incoming - 1
          /\ handed' = handed + 1
          /\ ares' = [ares EXCEPT ![t] = "Incoming"]
       \/ /\ EndpointClosed
          /\ ares' = [ares EXCEPT ![t] = ClosedError]
          /\ UNCHANGED <<incoming, handed>>
    /\ apc' = [apc EXCEPT ![t] = "done"]
    /\ UNCHANGED <<shutting_down, closed, conns, arrived, aflag, spc, sseen, sidle,
                   sflag, chanVars, admVars, connVars>>

\* self.endpoint.accept().await.map(IncomingClient).ok_or(EndpointIsClosed)
AcceptWake(t) ==
    /\ apc[t] = "waiting"
    /\ \/ /\ incoming > 0
          /\ incoming' = incoming - 1
          /\ handed' = handed + 1
          /\ ares' = [ares EXCEPT ![t] = "Incoming"]
       \/ /\ EndpointClosed
          /\ ares' = [ares EXCEPT ![t] = ClosedError]
          /\ UNCHANGED <<incoming, handed>>
    /\ apc' = [apc EXCEPT ![t] = "done"]
    /\ UNCHANGED <<shutting_down, closed, conns, arrived, aflag, spc, sseen, sidle,
                   sflag, chanVars, admVars, connVars>>

(***************************************************************************)
(* Server::shut_down, one task per call; the load, the store and the close  *)
(* are separate steps of a Server shared by tasks on several threads.       *)
(***************************************************************************)
ShutDownCall ==
    /\ Len(spc) < MaxShutdowns
    /\ spc' = Append(spc, "load")
    /\ sseen' = Append(sseen, FALSE)
    /\ sidle' = Append(sidle, FALSE)
    /\ sflag' = Append(sflag, shutting_down)
    /\ UNCHANGED <<shutting_down, closed, conns, arrived, incoming, handed, apc, aflag,
                   ares, chanVars, admVars, connVars>>

\* a faulty variant: the call goes on whatever the flag was
AfterLoadUnchecked(seen) == "store"

\* where a call that loaded the flag as seen goes on
AfterLoad(seen) == IF seen THEN "done" ELSE "store"

\* if !self.shutting_down.load(Ordering::Acquire)
ShutDownLoad(t) ==
    /\ spc[t] = "load"
    /\ sseen' = [sseen EXCEPT ![t] = shutting_down]
    /\ spc' = [spc EXCEPT ![t] = AfterLoad(shutting_down)]
    /\ sidle' = [sidle EXCEPT ![t] = (AfterLoad(shutting_down) = "done" /\ conns = 0)]
    /\ UNCHANGED <<shutting_down, closed, conns, arrived, incoming, handed, apc, aflag,
                   ares, sflag, chanVars, admVars, connVars>>

\* self.shutting_down.store(true, Ordering::Release)
ShutDownStore(t) ==
    /\ spc[t] = "store"
    /\ shutting_down' = TRUE
    /\ spc' = [spc EXCEPT ![t] = "close"]
    /\ UNCHANGED <<closed, conns, arrived, incoming, handed, apc, aflag, ares, sseen,
                   sidle, sflag, chanVars, admVars, connVars>>

\* self.endpoint.close(code.into(), reason): task t closes with its own code
ShutDownClose(t) ==
    /\ spc[t] = "close"
    /\ closed' = Append(closed, t)
    /\ spc' = [spc EXCEPT ![t] = "wait"]
    /\ UNCHANGED <<shutting_down, conns, arrived, incoming, handed, apc, aflag, ares,
                   sseen, sidle, sflag, chanVars, admVars, connVars>>

\* self.endpoint.wait_idle().await
ShutDownWaitIdle(t) ==
    /\ spc[t] = "wait"
    /\ conns = 0
    /\ spc' = [spc EXCEPT ![t] = "done"]
    /\ sidle' = [sidle EXCEPT ![t] = TRUE]
    /\ UNCHANGED <<shutting_down, closed, conns, arrived, incoming, handed, apc, aflag,
                   ares, sseen, sflag, chanVars, admVars, connVars>>

(***************************************************************************)
(* IncomingClient::accept, one entry of att per call.  What the call learns *)
(* about the attempt is drawn where the code first looks at it: the remote  *)
(* address and its validation when the call starts, the negotiated protocol *)
(* at handshake_data(), the keys of the two ends when the handshake ends.   *)
(***************************************************************************)
\* pub const ALPN_QUIC_MOSAIC: &[u8] = b"mosaic"
ALPN_QUIC_MOSAIC == "mosaic"

\* remote socket addresses
Remotes == {"r1", "r2"}

\* enum Approval
Approvals == {"Approve", "Refuse", "SilentlyRefuse"}

\* HandshakeData.protocol: None, or Some(tag)
Protocols == {<<>>, <<ALPN_QUIC_MOSAIC>>, <<"h3">>}

\* what handshake_data().await yields: an error, or the handshake data
HandshakeResults ==
    {[ok |-> FALSE, protocol |-> <<>>]} \cup {[ok |-> TRUE, protocol |-> p] : p \in Protocols}

\* secret_key.public()
Public(sk) == <<"public", sk>>

\* the secret key the ServerConfig was made from, and the key the server presents
ServerSecret == "ks"
ServerKey == Public(ServerSecret)

\* the server keys a ClientConfig may expect, the secret keys it may hold (None or Some)
ExpectedKeys == {Public(ServerSecret), Public("kx")}
ClientSecrets == {<<>>, <<"kc">>}

\* a faulty variant: an attempt is never challenged
NeedsRetryNever(validated) == FALSE

\* if !self.0.remote_address_validated()
NeedsRetry(validated) == ~validated

\* a faulty variant: the approver is consulted a second time before the transport accept
AskApproverTwice(remote) == <<remote, remote>>

\* self.config.approver.is_client_allowed(remote_socket_addr): the calls made
AskApprover(remote) == <<remote>>

\* a faulty variant: a silent refusal answers the peer like a refusal
ResolveLoudly(approval) ==
    IF approval = "Approve"
      THEN [ev |-> <<>>, ret |-> "none"]
      ELSE [ev |-> <<"refuse">>, ret |-> "RemoteAddressNotApproved"]

\* match on the Approval: what is called on the quinn::Incoming and what is returned
Resolve(approval) ==
    CASE approval = "Approve" -> [ev |-> <<>>, ret |-> "none"]
      [] approval = "Refuse" -> [ev |-> <<"refuse">>, ret |-> "RemoteAddressNotApproved"]
      [] approval = "SilentlyRefuse" -> [ev |-> <<"ignore">>, ret |-> "RemoteAddressNotApproved"]

\* a faulty variant: after the retry the call goes on to approval instead of returning
AdmissionNoReturn(remote, validated, approval) ==
    LET asked == AskApprover(remote)
        r == Resolve(approval)
    IN [asked |-> asked,
        approval |-> approval,
        ev |-> (IF NeedsRetry(validated) THEN <<"retry">> ELSE <<>>)
                 \o [i \in 1..Len(asked) |-> "ask"] \o r.ev
                 \o (IF r.ret = "none" THEN <<"accept">> ELSE <<>>),
        ret |-> r.ret]

\* the call up to self.0.accept(): who was asked, the calls in order, the return if any
Admission(remote, validated, approval) ==
    IF NeedsRetry(validated)
      THEN [asked |-> <<>>, approval |-> "none", ev |-> <<"retry">>,
            ret |-> "StatelessRetryRequired"]
      ELSE LET asked == AskApprover(remote)
               r == Resolve(approval)
           IN [asked |-> asked,
               approval |-> approval,
               ev |-> [i \in 1..Len(asked) |-> "ask"] \o r.ev
                        \o (IF r.ret = "none" THEN <<"accept">> ELSE <<>>),
               ret |-> r.ret]

\* a faulty variant: a handshake that negotiated no protocol passes
AlpnCheckLenient(protocol) ==
    IF protocol = <<>> THEN "Ok"
    ELSE IF protocol[1] # ALPN_QUIC_MOSAIC THEN "WrongAlpn"
    ELSE "Ok"

\* match handshake_data.protocol
AlpnCheck(protocol) ==
    IF protocol = <<>> THEN "MissingAlpn"
    ELSE IF protocol[1] # ALPN_QUIC_MOSAIC THEN "WrongAlpn"
    ELSE "Ok"

\* a faulty variant: the client's verifier is given no key
PinnedKeyNone(server_public_key) == <<>>

\* SelfSignedCertificateVerifier::new(.., Some(server_public_key.as_bytes().to_vec()))
PinnedKey(server_public_key) == <<server_public_key>>

\* the verifier: with Some(key) only that key passes, with None any key does
VerifierAccepts(pinned, presented) == pinned = <<>> \/ pinned[1] = presented

\* the certificates the client presents: with_client_auth_cert or with_no_client_auth
Certificates(client_secret_key) ==
    IF client_secret_key = <<>> THEN <<>> ELSE <<Public(client_secret_key[1])>>

\* a faulty variant: the peer's key is not taken from its certificate
PeerIdentityNone(certs) == <<>>

\* connection.peer_identity() and the loop over the certificates: the last key found
PeerIdentity(certs) == IF certs = <<>> THEN <<>> ELSE <<certs[Len(certs)]>>

\* Client::peer(): self.server_public_key
ClientPeer(server_public_key) == server_public_key

\* a faulty variant: the connection outlives the quinn::Connecting that held it
DropConnectingLeaked == TRUE

\* is the connection still open once the call's quinn::Connecting is dropped: the
\* call owns connecting, and a dropped Connecting closes its connection
DropConnecting == FALSE

\* the entry of a call on an attempt from remote, after Admission gave a
Attempt(remote, validated, a, st, ret) ==
    [remote |-> remote, validated |-> validated, asked |-> a.asked,
     approval |-> a.approval, ev |-> a.ev,
     st |-> st, ret |-> ret, open |-> (st = "handshake_data"),
     protocol |-> <<>>, peer |-> <<>>,
     expected |-> <<>>, secret |-> <<>>, cret |-> "none", cpeer |-> <<>>]

\* the call is made on a handed-out IncomingClient and runs to its first await:
\* retry, or the approver's answer, then self.0.accept()?
IncomingClientAccept(remote, validated, approval) ==
    /\ handed > 0
    /\ handed' = handed - 1
    /\ LET a == Admission(remote, validated, approval) IN
       IF a.ret # "none"
         THEN /\ att' = Append(att, Attempt(remote, validated, a, "done", a.ret))
              /\ UNCHANGED conns
         ELSE \/ /\ att' = Append(att, Attempt(remote, validated, a, "handshake_data", "none"))
                 /\ conns' = conns + 1
              \/ /\ att' = Append(att, Attempt(remote, validated, a, "done", "ConnectionError"))
                 /\ UNCHANGED conns
    /\ UNCHANGED <<shutting_down, closed, arrived, incoming, apc, aflag, ares, spc, sseen,
                   sidle, sflag, chanVars, connVars>>

\* connecting.handshake_data().await? and the match on the protocol
HandshakeData(a, hd) ==
    /\ att[a].st = "handshake_data"
    /\ att' = [att EXCEPT ![a] =
                 IF ~hd.ok
                   THEN [@ EXCEPT !.st = "done", !.ret = "ConnectionError", !.open = FALSE]
                   ELSE IF AlpnCheck(hd.protocol) = "Ok"
                          THEN [@ EXCEPT !.st = "connecting", !.protocol = <<hd.protocol>>]
                          ELSE [@ EXCEPT !.st = "done", !.ret = AlpnCheck(hd.protocol),
                                         !.protocol = <<hd.protocol>>,
                                         !.open = DropConnecting]]
    /\ UNCHANGED <<srvVars, chanVars, connVars>>

\* connecting.await? on the server and on the client (ClientConfig::client), which
\* was made with server_public_key and client_secret_key; the handshake ends well
\* only if the client's verifier accepts the key the server presents
ConnectingAwait(a, server_public_key, client_secret_key, ok) ==
    /\ att[a].st = "connecting"
    /\ att' = [att EXCEPT ![a] =
                 IF ok /\ VerifierAccepts(PinnedKey(server_public_key), ServerKey)
                   THEN [@ EXCEPT !.st = "done", !.ret = "ClientConnection",
                                  !.peer = PeerIdentity(Certificates(client_secret_key)),
                                  !.expected = <<server_public_key>>,
                                  !.secret = client_secret_key,
                                  !.cret = "Client",
                                  !.cpeer = <<ClientPeer(server_public_key)>>]
                   ELSE [@ EXCEPT !.st = "done", !.ret = "ConnectionError",
                                  !.open = FALSE,
                                  !.expected = <<server_public_key>>,
                                  !.secret = client_secret_key,
                                  !.cret = "Err"]]
    /\ UNCHANGED <<srvVars, chanVars, connVars>>

\* the future of the call is dropped at handshake_data().await or at connecting.await:
\* the call never returns, and its locals, connecting among them, are dropped
CancelAccept(a) ==
    /\ att[a].st \in {"handshake_data", "connecting"}
    /\ att' = [att EXCEPT ![a] = [@ EXCEPT !.st = "done", !.ret = "dropped",
                                            !.open = DropConnecting]]
    /\ UNCHANGED <<srvVars, chanVars, connVars>>

AdmInit == att = <<>>

(***************************************************************************)
(* The channels of one connection.  The Channel above is one of them; other *)
(* is the first Channel next_channel yields, over a stream of its own that  *)
(* the peer writes one message to.  lost is the state of the connection.    *)
(***************************************************************************)
\* a recv of the first Channel failed on the framing: invalid length or decode error
Failed == \E i \in 1..Len(results) : results[i].kind \in {"InvalidLength", "MosaicCore"}

\* ClientConnection::next_channel: self.inner.accept_bi().await?, then Channel::new
NextChannel ==
    /\ ~lost
    /\ Len(channels) < MaxChannels
    /\ channels' = Append(channels, Failed)
    /\ UNCHANGED <<other, chanVars, srvVars, admVars>>

\* the peer writes a message to the other Channel's stream
OtherPeerWrite(m) ==
    /\ channels # <<>>
    /\ ~lost
    /\ other.written = <<>>
    /\ other' = [other EXCEPT !.written = m]
    /\ UNCHANGED <<channels, chanVars, srvVars, admVars>>

\* a faulty variant: the framing state is held once for the connection
OtherResumeShared == Resume

\* the state a recv of the other Channel goes on from: that Channel's own fields
OtherResume ==
    [partial |-> other.partial, partial_len |-> other.partial_len,
     bytes_read |-> other.bytes_read]

\* the other Channel after a step of its recv that handed out n more stream bytes
OtherApply(s, n) ==
    other' = [other EXCEPT !.partial = s.partial,
                           !.partial_len = s.partial_len,
                           !.bytes_read = s.bytes_read,
                           !.pc = s.pc,
                           !.rpos = @ + n,
                           !.results = @ \o [i \in 1..Len(s.out) |->
                                               [res |-> s.out[i], after |-> Failed]]]

\* Channel::recv on the other Channel, up to its first read
OtherRecvCall ==
    /\ channels # <<>>
    /\ other.pc = "idle"
    /\ Len(other.results) < MaxRecvs
    /\ LET r == OtherResume IN
       IF r.bytes_read < HeaderLen
         THEN OtherApply(Going(r.partial, r.partial_len, r.bytes_read, "hdr"), 0)
         ELSE OtherApply(AfterHeader(r.partial, r.partial_len, r.bytes_read), 0)
    /\ UNCHANGED <<channels, chanVars, srvVars, admVars>>

\* a read of the header loop or of the body loop of that recv returns
OtherRead ==
    /\ other.pc \in {"hdr", "body"}
    /\ LET r == OtherResume
           avail == Len(other.written) - other.rpos
           want == IF other.pc = "hdr" THEN HeaderLen - r.bytes_read
                                       ELSE r.partial_len - r.bytes_read
       IN \/ /\ lost
             /\ OtherApply([partial |-> r.partial, partial_len |-> r.partial_len,
                            bytes_read |-> r.bytes_read, pc |-> "idle",
                            out |-> <<Res("QuicRead", <<>>)>>, took |-> <<>>], 0)
          \/ /\ ~lost /\ avail > 0
             /\ \E n \in 1..Min(want, avail) :
                   LET p == ReadInto(r.partial, r.bytes_read,
                                     SubSeq(other.written, other.rpos + 1, other.rpos + n))
                       br == r.bytes_read + n
                   IN IF other.pc = "hdr"
                        THEN IF br >= HeaderLen
                               THEN OtherApply(AfterHeader(p, r.partial_len, br), n)
                               ELSE OtherApply(Going(p, r.partial_len, br, "hdr"), n)
                        ELSE IF br >= MessageLen(p)
                               THEN OtherApply(FrameDone(p, r.partial_len), n)
                               ELSE OtherApply(Going(p, r.partial_len, br, "body"), n)
    /\ UNCHANGED <<channels, chanVars, srvVars, admVars>>

\* no Channel yielded yet; Channel::new for the one that will be
ConnInit ==
    /\ channels = <<>>
    /\ other = [written |-> <<>>, rpos |-> 0, partial |-> Zeros(HeaderLen),
                partial_len |-> HeaderLen, bytes_read |-> 0, pc |-> "idle",
                results |-> <<>>]

Init == ChanInit /\ SrvInit /\ AdmInit /\ ConnInit

\* the Channel over a stream written by Channel::send and by a peer
Next ==
    \/ \E m \in Messages : Send(m)
    \/ Finish
    \/ \E f \in PeerFrames : PeerWrite(f)
    \/ ConnectionLost
    \/ RecvCall
    \/ RecvHeaderRead
    \/ RecvBodyRead
    \/ Cancel

Spec == Init /\ [][Next]_vars

\* the Channel over a stream that carries whole frames
FramedNext ==
    \/ Finish
    \/ \E f \in PeerFrames : PeerWrite(f)
    \/ \E m \in Messages : \E n \in 1..(Len(m) - 1) : PeerAbort(m, n)
    \/ ConnectionLost
    \/ RecvCall
    \/ RecvHeaderRead
    \/ RecvBodyRead
    \/ Cancel

FramedSpec == Init /\ [][FramedNext]_vars

\* the Channel over a stream the peer writes well-formed frames to, with a transport
\* that goes on delivering and a caller that goes on calling recv: a read that can
\* return again and again does return (the runtime wakes the task when bytes are
\* there), and a recv that can be called is called
LiveNext ==
    \/ \E m \in Messages : PeerWrite(m)
    \/ RecvCall
    \/ RecvHeaderRead
    \/ RecvBodyRead
    \/ Cancel

LiveSpec ==
    /\ Init
    /\ [][LiveNext]_vars
    /\ WF_vars(RecvCall)
    /\ SF_vars(RecvHeaderRead)
    /\ SF_vars(RecvBodyRead)

\* the sending side of the Channel alone
SendNext ==
    \/ \E m \in Messages : Send(m)
    \/ Finish
    \/ ConnectionLost

SendSpec == Init /\ [][SendNext]_vars

\* the Server
ServerNext ==
    \/ Arrive
    \/ Establish
    \/ Drain
    \/ AcceptCall
    \/ \E t \in 1..Len(apc) : AcceptCheck(t)
    \/ \E t \in 1..Len(apc) : AcceptWake(t)
    \/ ShutDownCall
    \/ \E t \in 1..Len(spc) : ShutDownLoad(t)
    \/ \E t \in 1..Len(spc) : ShutDownStore(t)
    \/ \E t \in 1..Len(spc) : ShutDownClose(t)
    \/ \E t \in 1..Len(spc) : ShutDownWaitIdle(t)

ServerSpec == Init /\ [][ServerNext]_vars

\* Server::accept handing out attempts and IncomingClient::accept admitting them
AdmitNext ==
    \/ Arrive
    \/ AcceptCall
    \/ \E t \in 1..Len(apc) : AcceptCheck(t)
    \/ \E t \in 1..Len(apc) : AcceptWake(t)
    \/ \E remote \in Remotes : \E validated \in BOOLEAN :
          \E approval \in (IF validated THEN Approvals ELSE {"Approve"}) :
             IncomingClientAccept(remote, validated, approval)
    \/ \E a \in 1..Len(att) : \E hd \in HandshakeResults : HandshakeData(a, hd)
    \/ \E a \in 1..Len(att) : \E k \in ExpectedKeys : \E sk \in ClientSecrets :
          \E ok \in BOOLEAN : ConnectingAwait(a, k, sk, ok)
    \/ \E a \in 1..Len(att) : CancelAccept(a)

AdmitSpec == Init /\ [][AdmitNext]_vars

\* two Channels of one connection, each over a stream the peer writes
ConnNext ==
    \/ \E f \in FailingFrames : PeerWrite(f)
    \/ ConnectionLost
    \/ RecvCall
    \/ RecvHeaderRead
    \/ RecvBodyRead
    \/ NextChannel
    \/ OtherPeerWrite(MsgB)
    \/ OtherRecvCall
    \/ OtherRead

ConnSpec == Init /\ [][ConnNext]_vars

(***************************************************************************)
(* What the stream carries, as the properties see it.                       *)
(***************************************************************************)
\* the write put the whole frame on the stream
Whole(w) == w.n = Len(w.frame)

\* the total length a frame's header declares (32-bit little endian at bytes 4..8)
DeclaredLen(f) == f[5] + 256 * f[6] + 65536 * f[7] + 16777216 * f[8]

\* a whole frame whose header declares its length
Framing(w) == Whole(w) /\ DeclaredLen(w.frame) = Len(w.frame)

\* how many leading writes are whole frames with their length declared
FramedLen ==
    CHOOSE k \in 0..Len(written) :
        /\ \A j \in 1..k : Framing(written[j])
        /\ k < Len(written) => ~Framing(written[k + 1])

\* those frames
Framed == [i \in 1..FramedLen |-> written[i].frame]

IsMessage(f) == f \in Messages
IsSome(r) == r.kind = "Some"
IsAnswer(r) == r.kind # "QuicRead"
IsInvalidLength(r) == r.kind = "InvalidLength"

\* the messages the writes so far must yield, in order
Expected == SelectSeq(Framed, IsMessage)

\* the messages recv returned, in order
Delivered == LET d == SelectSeq(results, IsSome) IN [i \in 1..Len(d) |-> d[i].msg]

\* what the recv calls that did not fail on the transport returned
Answered == SelectSeq(results, IsAnswer)

IsPrefix(a, b) == Len(a) <= Len(b) /\ \A i \in 1..Len(a) : a[i] = b[i]

\* the stream bytes the RecvStream handed out
ConsumedBytes == SubSeq(WrittenBytes, 1, rpos)

(***************************************************************************)
(* C1.  Round trip: when send returned Ok for a message, the peer's recv    *)
(* returns Some(message) with the same bytes.  Stated for a stream written  *)
(* by Channel::send alone: the i-th recv that did not fail on the transport *)
(* returns the i-th message sent.                                           *)
(***************************************************************************)
RoundTripLaw ==
    \A i \in 1..Len(Answered) :
        (i <= Len(written) /\ \A j \in 1..i : written[j].op = "send")
            => Answered[i] = Res("Some", written[i].frame)

(***************************************************************************)
(* C2.  Whenever send returns Ok, every byte of the message's encoding is   *)
(* on the stream: the count written is the encoded length.                  *)
(***************************************************************************)
SendWritesWholeMessage ==
    \A i \in 1..Len(written) :
        written[i].op = "send" => written[i].n = Len(written[i].frame)

(***************************************************************************)
(* C3.  Cancel safety: whatever recv calls were dropped and made again, the *)
(* bytes handed out by the stream are exactly the frames taken so far       *)
(* followed by the bytes_read bytes held in partial (none dropped, none     *)
(* twice), and every frame taken ends where its header says.                *)
(***************************************************************************)
CancelSafe ==
    /\ bytes_read <= Len(partial)
    /\ ConsumedBytes = Flatten(taken) \o SubSeq(partial, 1, bytes_read)
    /\ \A i \in 1..Len(taken) : Len(taken[i]) = DeclaredLen(taken[i])

\* a recv was dropped inside the header and inside the body of the one frame
\* written, and a later call returned that frame
CancelResumed ==
    /\ Len(written) = 1
    /\ written[1].frame = MsgB
    /\ cancelled = {"hdr", "body"}
    /\ results = <<Res("Some", MsgB)>>

(***************************************************************************)
(* C4.  Fragmentation invariance: however the reads split the stream, the   *)
(* frames recv completes are the frames written, byte for byte.             *)
(***************************************************************************)
FragmentationInvariance == IsPrefix(taken, Framed)

\* a frame with a body was read one byte a time and returned whole
OneByteChunks ==
    /\ ones
    /\ taken = <<MsgB>>
    /\ results = <<Res("Some", MsgB)>>

(***************************************************************************)
(* C5.  A header declaring a length below 8 makes recv return the invalid   *)
(* length error, and from then on every recv returns that error, no         *)
(* further byte is read and no message is returned.                         *)
(***************************************************************************)
\* the first write that is not a framed frame is a header declaring less than 8
HasBadHeader ==
    /\ FramedLen < Len(written)
    /\ Whole(written[FramedLen + 1])
    /\ DeclaredLen(written[FramedLen + 1].frame) < HeaderLen

\* the stream position right after that header
BadHeaderEnd == Len(Flatten(Framed)) + HeaderLen

InvalidLengthIsFinal ==
    /\ (HasBadHeader /\ rpos >= BadHeaderEnd)
          => \E i \in 1..Len(results) : IsInvalidLength(results[i])
    /\ (\E i \in 1..Len(results) : IsInvalidLength(results[i]))
          => /\ HasBadHeader
             /\ rpos = BadHeaderEnd
             /\ pc = "idle"
             /\ \A i, j \in 1..Len(results) :
                   (i < j /\ IsInvalidLength(results[i])) => IsInvalidLength(results[j])

\* the error was returned twice while bytes wait on the stream
InvalidLengthTwice ==
    /\ \E i, j \in 1..Len(results) :
          i < j /\ IsInvalidLength(results[i]) /\ IsInvalidLength(results[j])
    /\ Avail > 0

(***************************************************************************)
(* C6.  When a read reports the end of the stream before the frame is       *)
(* complete, recv returns Ok(None), takes no frame, and no message returned *)
(* is anything but a frame that was written whole.                          *)
(***************************************************************************)
\* a step in which a read of recv met the end of the stream
EndOfStreamStep ==
    /\ pc \in {"hdr", "body"}
    /\ ~lost /\ fin /\ Avail = 0
    /\ results' # results

OnlyWholeMessages ==
    \A i \in 1..Len(results) :
        IsSome(results[i])
            => \E j \in 1..Len(written) :
                  Whole(written[j]) /\ written[j].frame = results[i].msg

EndOfStreamYieldsNone ==
    /\ []OnlyWholeMessages
    /\ [][EndOfStreamStep
            => /\ results' = Append(results, Res("None", <<>>))
               /\ taken' = taken]_vars

\* the stream ended inside the body of a frame and recv returned None
EndOfStreamInBody ==
    /\ pc = "idle"
    /\ fin /\ Avail = 0 /\ ~lost
    /\ bytes_read = HeaderLen + 1
    /\ results # <<>>
    /\ results[Len(results)] = Res("None", <<>>)

(***************************************************************************)
(* C7.  FIFO: the messages recv returns are the messages written, in the    *)
(* order written, none skipped, repeated, split or merged.                  *)
(***************************************************************************)
FifoOrder == IsPrefix(Delivered, Expected)

\* two different messages were written and returned
TwoDelivered ==
    /\ Len(Delivered) = 2
    /\ Delivered[1] # Delivered[2]

(***************************************************************************)
(* C8.  An accept call made after shut_down set the flag fails with         *)
(* ShuttingDown: it never waits on the endpoint and never returns an        *)
(* IncomingClient.                                                          *)
(***************************************************************************)
AcceptAfterShutdownFails ==
    \A t \in 1..Len(apc) :
        aflag[t] => /\ apc[t] # "waiting"
                    /\ ares[t] \in {"none", "ShuttingDown"}

\* such a call failed while an attempt was waiting in the endpoint
AcceptRefusedWhileQueued ==
    /\ incoming > 0
    /\ \E t \in 1..Len(apc) : aflag[t] /\ ares[t] = "ShuttingDown"

(***************************************************************************)
(* C9.  An accept that is pending when shut_down is initiated fails with    *)
(* ShuttingDown; EndpointIsClosed is returned only when the endpoint was    *)
(* closed without the shutdown flag having been set.                        *)
(***************************************************************************)
PendingAcceptFailsShuttingDown ==
    \A t \in 1..Len(apc) :
        (apc[t] = "done" /\ ares[t] # "Incoming" /\ shutting_down)
            => ares[t] = "ShuttingDown"

(***************************************************************************)
(* C10.  Whenever a shut_down call returns, the endpoint is idle.           *)
(***************************************************************************)
ShutDownReturnsIdle ==
    \A t \in 1..Len(spc) : spc[t] = "done" => sidle[t]

(***************************************************************************)
(* C11.  The shutdown flag starts false, is set only by the store of a      *)
(* shut_down call and never returns to false; a shut_down call made when    *)
(* the flag is already true changes nothing, does not close the endpoint    *)
(* again, and returns.                                                      *)
(***************************************************************************)
\* a step in which a shut_down call made with the flag set moves
LateShutDownStep ==
    \E t \in 1..Len(spc) : sflag[t] /\ spc'[t] # spc[t]

ShutDownIdempotent ==
    /\ ~shutting_down
    /\ [][/\ shutting_down => shutting_down'
          /\ shutting_down' # shutting_down
                => \E t \in 1..Len(spc) : spc[t] = "store" /\ spc'[t] = "close"
          /\ LateShutDownStep
                => UNCHANGED <<shutting_down, closed, conns, arrived, incoming, handed>>]_vars
    /\ [](\A t \in 1..Len(spc) :
             sflag[t] => /\ spc[t] \in {"load", "done"}
                         /\ \A i \in 1..Len(closed) : closed[i] # t)

\* a call made with the flag set has returned, after the one close of the first call
ShutDownAgain ==
    /\ Len(closed) = 1
    /\ \E t \in 1..Len(spc) : sflag[t] /\ spc[t] = "done" /\ sseen[t]

(***************************************************************************)
(* IncomingClient::accept, as the properties see it.                        *)
(***************************************************************************)
\* the calls made on the quinn::Incoming of call a, without the approver's
Transport(a) == SelectSeq(att[a].ev, LAMBDA e : e # "ask")

\* how often e occurs in the log of call a
Count(a, e) == Cardinality({i \in 1..Len(att[a].ev) : att[a].ev[i] = e})

(***************************************************************************)
(* C12.  On an attempt that is not address-validated IncomingClient::accept *)
(* issues a stateless retry, ends, and returns StatelessRetryRequired, with *)
(* no ClientConnection; an attempt that arrives validated is not challenged *)
(* again and goes on to approval.                                           *)
(***************************************************************************)
RetryThenApproval ==
    \A a \in 1..Len(att) :
        /\ ~att[a].validated
              => /\ att[a].st = "done"
                 /\ att[a].ev = <<"retry">>
                 /\ att[a].ret = "StatelessRetryRequired"
        /\ att[a].validated
              => /\ Count(a, "retry") = 0
                 /\ att[a].ret # "StatelessRetryRequired"
                 /\ att[a].ev # <<>> /\ att[a].ev[1] = "ask"

\* a remote was sent a retry, and its later, validated attempt reached the approver
RetriedThenAsked ==
    \E a, b \in 1..Len(att) :
        /\ a < b
        /\ att[a].remote = att[b].remote
        /\ ~att[a].validated /\ att[a].ret = "StatelessRetryRequired"
        /\ att[b].validated /\ att[b].asked # <<>>

(***************************************************************************)
(* C13.  For a validated attempt the transport accept and the handshake     *)
(* happen only when the Approver answered Approve; on Refuse the attempt is *)
(* refused, on SilentlyRefuse it is ignored, and both return the same       *)
(* RemoteAddressNotApproved with no ClientConnection.                       *)
(***************************************************************************)
ApprovalGatesAccept ==
    \A a \in 1..Len(att) :
        /\ (Count(a, "accept") > 0 \/ att[a].st # "done" \/ att[a].ret = "ClientConnection")
              => att[a].approval = "Approve"
        /\ att[a].approval = "Refuse"
              => /\ Transport(a) = <<"refuse">>
                 /\ att[a].st = "done" /\ att[a].ret = "RemoteAddressNotApproved"
        /\ att[a].approval = "SilentlyRefuse"
              => /\ Transport(a) = <<"ignore">>
                 /\ att[a].st = "done" /\ att[a].ret = "RemoteAddressNotApproved"

\* one attempt was refused, another silently, with the same return
RefusedBothWays ==
    \E a, b \in 1..Len(att) :
        /\ att[a].approval = "Refuse" /\ att[b].approval = "SilentlyRefuse"
        /\ att[a].ret = att[b].ret

(***************************************************************************)
(* C14.  is_client_allowed is called exactly once per accept call on a      *)
(* validated attempt, with that attempt's remote address, before the        *)
(* transport accept; it is not called for an attempt that is not validated. *)
(***************************************************************************)
ApproverAskedOnce ==
    \A a \in 1..Len(att) :
        /\ att[a].validated
              => /\ att[a].asked = <<att[a].remote>>
                 /\ Count(a, "ask") = 1
                 /\ att[a].ev[1] = "ask"
        /\ ~att[a].validated
              => /\ att[a].asked = <<>>
                 /\ Count(a, "ask") = 0

\* two validated attempts from different remotes, each asked about, one accepted
AskedAboutEach ==
    \E a, b \in 1..Len(att) :
        /\ att[a].remote # att[b].remote
        /\ att[a].asked = <<att[a].remote>> /\ att[b].asked = <<att[b].remote>>
        /\ att[a].ev = <<"ask", "accept">>

(***************************************************************************)
(* C15.  For an approved attempt the negotiated protocol is checked before  *)
(* a connection is handed out: none negotiated gives MissingAlpn, another   *)
(* tag gives WrongAlpn, and a ClientConnection is returned only when the    *)
(* tag is b"mosaic".                                                        *)
(***************************************************************************)
AlpnGate ==
    \A a \in 1..Len(att) :
        /\ att[a].protocol = <<<<>>>>
              => att[a].st = "done" /\ att[a].ret = "MissingAlpn"
        /\ (att[a].protocol # <<>> /\ att[a].protocol \notin {<<<<>>>>, <<<<"mosaic">>>>})
              => att[a].st = "done" /\ att[a].ret = "WrongAlpn"
        /\ (att[a].st = "connecting" \/ att[a].ret = "ClientConnection")
              => att[a].protocol = <<<<"mosaic">>>>
        /\ att[a].ret \in {"MissingAlpn", "WrongAlpn"} => att[a].approval = "Approve"

\* one approved attempt failed on its protocol, another became a ClientConnection
AlpnSorted ==
    \E a, b \in 1..Len(att) :
        /\ att[a].ret \in {"MissingAlpn", "WrongAlpn"}
        /\ att[b].ret = "ClientConnection"

(***************************************************************************)
(* C16.  A client made to expect the server key K that connects to a server *)
(* whose key is another never obtains a connection: ClientConfig::client    *)
(* returns an error, there is no Client, and the server has no              *)
(* ClientConnection for it.                                                 *)
(***************************************************************************)
KeyMismatchNeverConnects ==
    \A a \in 1..Len(att) :
        (att[a].expected # <<>> /\ att[a].expected[1] # ServerKey)
            => /\ att[a].cret = "Err"
               /\ att[a].cpeer = <<>>
               /\ att[a].ret # "ClientConnection"

\* such a client went through approval and the protocol check, and failed in the handshake
KeyMismatchRejected ==
    \E a \in 1..Len(att) :
        /\ att[a].expected = <<Public("kx")>>
        /\ att[a].protocol = <<<<"mosaic">>>>
        /\ att[a].cret = "Err"

(***************************************************************************)
(* C17.  When the client expects the key the server has and is admitted,    *)
(* Client::peer() is that key, and ClientConnection::peer() is the public   *)
(* key of the client's secret key if it was given one and None if not; an   *)
(* anonymous client is admitted.                                            *)
(***************************************************************************)
PeersKnowEachOther ==
    \A a \in 1..Len(att) :
        att[a].ret = "ClientConnection"
            => /\ att[a].cret = "Client"
               /\ att[a].expected = <<ServerKey>>
               /\ att[a].cpeer = <<ServerKey>>
               /\ att[a].secret = <<>> => att[a].peer = <<>>
               /\ att[a].secret # <<>> => att[a].peer = <<Public(att[a].secret[1])>>

\* an anonymous client and a client with a key were both admitted
AnonymousAndKnown ==
    \E a, b \in 1..Len(att) :
        /\ att[a].ret = "ClientConnection" /\ att[a].secret = <<>> /\ att[a].peer = <<>>
        /\ att[b].ret = "ClientConnection" /\ att[b].peer = <<Public("kc")>>

(***************************************************************************)
(* C18.  Server::accept hands out each attempt as an IncomingClient before  *)
(* any admission step on it has run, and an IncomingClient that is held     *)
(* unresolved or is suspended in its handshake never keeps a later          *)
(* Server::accept from returning the next attempt.                          *)
(***************************************************************************)
\* the accept calls that returned an IncomingClient
HandedOut == {t \in 1..Len(apc) : ares[t] = "Incoming"}

AcceptNotBlocked ==
    /\ Len(att) + handed = Cardinality(HandedOut)
    /\ \A t \in 1..Len(apc) :
          (apc[t] = "waiting" /\ incoming > 0) => ENABLED AcceptWake(t)

\* with one attempt suspended in its handshake and another held, both were handed out
HeldWhileHandedOut ==
    /\ \E a \in 1..Len(att) : att[a].st \in {"handshake_data", "connecting"}
    /\ handed > 0
    /\ Cardinality(HandedOut) = 2

(***************************************************************************)
(* C19.  A framing failure on one Channel changes only that Channel: the    *)
(* connection stays open, every other Channel keeps its own partial and     *)
(* bytes_read and goes on delivering its frames, and next_channel goes on   *)
(* yielding Channels.                                                       *)
(***************************************************************************)
\* a step in which a recv of the first Channel returns a framing failure
FramingFailureStep ==
    /\ Len(results') = Len(results) + 1
    /\ results'[Len(results')].kind \in {"InvalidLength", "MosaicCore"}

\* the other Channel returned its message
OtherDelivered == \E i \in 1..Len(other.results) : other.results[i].res.kind = "Some"

\* the other Channel holds the bytes of its own stream, and returns its own message
OtherKeepsItsOwn ==
    /\ \A i \in 1..Len(other.results) :
          \/ other.results[i].res = Res("Some", other.written)
          \/ other.results[i].res = Res("QuicRead", <<>>) /\ lost
    /\ IF OtherDelivered
         THEN other.rpos = Len(other.written) /\ other.bytes_read = 0
         ELSE /\ other.bytes_read = other.rpos
              /\ SubSeq(other.partial, 1, other.bytes_read)
                    = SubSeq(other.written, 1, other.rpos)

FailureStaysInChannel ==
    /\ [][FramingFailureStep => UNCHANGED <<lost, fin, written, channels, other>>]_vars
    /\ []OtherKeepsItsOwn
    /\ []((Failed /\ ~lost /\ Len(channels) < MaxChannels) => ENABLED NextChannel)

\* after a recv of the first Channel failed, with the connection up, next_channel
\* yielded a Channel and the other Channel returned its message
DeliveredAfterFailure ==
    /\ ~lost
    /\ \E i \in 1..Len(results) : results[i].kind = "InvalidLength"
    /\ \E i \in 1..Len(channels) : channels[i]
    /\ \E i \in 1..Len(other.results) :
          other.results[i] = [res |-> Res("Some", MsgB), after |-> TRUE]

(***************************************************************************)
(* C20.  After Channel::finish, every further Channel::send fails and none  *)
(* succeeds silently.  The error is the QUIC write error: the already       *)
(* finished error is what a second Channel::finish returns.                 *)
(***************************************************************************)
SendAfterFinishFails ==
    /\ sendRet.finished => sendRet.kind = "QuicWrite"
    /\ finishRet = "ChannelAlreadyFinished" => fin

\* as claimed: the error of such a send is ChannelAlreadyFinished
SendAfterFinishAlreadyFinished ==
    sendRet.finished => sendRet.kind = "ChannelAlreadyFinished"

\* a send was made on a finished Channel of a connection that is up
SentAfterFinish ==
    /\ ~lost
    /\ finishRet = "Ok"
    /\ written # <<>>
    /\ sendRet = [kind |-> "QuicWrite", finished |-> TRUE]

(***************************************************************************)
(* C21.  When an IncomingClient::accept call is dropped at one of its two   *)
(* awaits, the connection it had accepted is closed with it: no connection  *)
(* stays open without the running call or a ClientConnection owning it.     *)
(* The attempt ends accepted and closed; it is not refused or retried.      *)
(***************************************************************************)
\* the connection of call a has an owner: the running call, or the ClientConnection
Owned(a) ==
    att[a].st \in {"handshake_data", "connecting"} \/ att[a].ret = "ClientConnection"

CancelClosesConnection ==
    \A a \in 1..Len(att) :
        /\ att[a].open => Owned(a)
        /\ att[a].ret = "dropped"
              => /\ att[a].st = "done"
                 /\ ~att[a].open
                 /\ Transport(a) = <<"accept">>

\* as claimed: the attempt of a dropped call ends refused, ignored or retried
CancelRejectsOrRetries ==
    \A a \in 1..Len(att) :
        att[a].ret = "dropped"
            => Transport(a) \in {<<"retry">>, <<"refuse">>, <<"ignore">>}

\* one call was dropped awaiting the handshake data, another awaiting the handshake's end
DroppedAtBothAwaits ==
    \E a, b \in 1..Len(att) :
        /\ att[a].ret = "dropped" /\ att[a].protocol = <<>>
        /\ att[b].ret = "dropped" /\ att[b].protocol = <<<<"mosaic">>>>

(***************************************************************************)
(* C23.  Every IncomingClient::accept call that returned resolved its       *)
(* attempt by exactly one of retry, refuse, ignore and accept: retry only   *)
(* when the address was not validated, refuse or ignore only when it was    *)
(* and the answer was not Approve, accept only when it was and the answer   *)
(* was Approve; and a ClientConnection is returned only after validation,   *)
(* Approve, the tag b"mosaic" and the completed handshake.                  *)
(***************************************************************************)
\* the call returned
Completed(a) == att[a].st = "done" /\ att[a].ret # "dropped"

ResolvedExactlyOnce ==
    \A a \in 1..Len(att) :
        Completed(a)
            => /\ Len(Transport(a)) = 1
               /\ Transport(a)[1] \in {"retry", "refuse", "ignore", "accept"}
               /\ Transport(a)[1] = "retry" => ~att[a].validated
               /\ Transport(a)[1] \in {"refuse", "ignore"}
                     => att[a].validated /\ att[a].approval \in {"Refuse", "SilentlyRefuse"}
               /\ Transport(a)[1] = "accept"
                     => att[a].validated /\ att[a].approval = "Approve"
               /\ att[a].ret = "ClientConnection"
                     => /\ att[a].validated
                        /\ att[a].ev = <<"ask", "accept">>
                        /\ att[a].approval = "Approve"
                        /\ att[a].protocol = <<<<"mosaic">>>>
                        /\ att[a].open /\ att[a].cret = "Client"

\* one call resolved its attempt by retry, another went the whole way
RetriedAndConnected ==
    \E a, b \in 1..Len(att) :
        /\ Completed(a) /\ Transport(a) = <<"retry">>
        /\ Completed(b) /\ att[b].ret = "ClientConnection"

(***************************************************************************)
(* C25.  However concurrent shut_down calls on one Server interleave, the   *)
(* endpoint is closed at most once, with the code and reason of the first   *)
(* caller.                                                                  *)
(***************************************************************************)
CloseAtMostOnce == Len(closed) <= 1

(***************************************************************************)
(* C22.  The Channel's buffer, in every state, whatever recv calls,         *)
(* cancellations and errors came before: partial has at least 8 bytes and   *)
(* bytes_read lies within it; either bytes_read is 0 and partial has the    *)
(* header's size, or partial[0..bytes_read] is the first bytes_read bytes   *)
(* of the one frame in progress; and the stream was read up to there and no *)
(* further, so no byte of the following frame is in the buffer.             *)
(***************************************************************************)
BufferInvariant ==
    LET k == Len(taken) + 1 IN
    /\ partial_len >= HeaderLen
    /\ bytes_read <= partial_len
    /\ bytes_read = 0 => partial_len = HeaderLen
    /\ bytes_read > 0
          => /\ k <= Len(written)
             /\ bytes_read <= written[k].n
             /\ SubSeq(partial, 1, bytes_read) = SubSeq(written[k].frame, 1, bytes_read)
    /\ rpos = Len(Flatten(taken)) + bytes_read

\* between two calls, after a call was dropped in the body of a frame, the buffer
\* holds part of that frame while the following frame waits on the stream
HeldBeforeNextFrame ==
    /\ pc = "idle"
    /\ "body" \in cancelled
    /\ Len(written) = 2
    /\ written[1].frame = MsgB
    /\ taken = <<>>
    /\ bytes_read = HeaderLen + 1

(***************************************************************************)
(* C24.  When a whole frame was accumulated and the decoder rejects it,     *)
(* recv returns the decode error with the framing state already reset       *)
(* (bytes_read = 0, partial back to 8 bytes): the rejected frame is         *)
(* consumed to its last byte, and the next recv starts at the following     *)
(* frame and can return it.                                                 *)
(***************************************************************************)
\* a step in which recv returns the decode error
DecodeErrorStep ==
    /\ Len(results') = Len(results) + 1
    /\ results'[Len(results')].kind = "MosaicCore"

\* what recv returned for the frames it completed, in order
Decoded == SelectSeq(results, LAMBDA r : r.kind \in {"Some", "MosaicCore"})

DecodeErrorResets ==
    /\ [][DecodeErrorStep
            => /\ bytes_read' = 0
               /\ partial' = Zeros(HeaderLen) /\ partial_len' = HeaderLen
               /\ pc' = "idle"
               /\ Len(taken') = Len(taken) + 1
               /\ rpos' = Len(Flatten(taken'))]_vars
    /\ [](/\ Len(Decoded) = Len(taken)
          /\ \A i \in 1..Len(taken) :
                /\ taken[i] = written[i].frame
                /\ Decoded[i] = IF IsMessage(taken[i]) THEN Res("Some", taken[i])
                                                       ELSE Res("MosaicCore", <<>>))

\* the frame after a rejected one was returned by the next recv
ReturnedAfterDecodeError ==
    /\ Len(written) = 2
    /\ written[1].frame = MalformedFrame
    /\ results = <<Res("MosaicCore", <<>>), Res("Some", written[2].frame)>>

(***************************************************************************)
(* C26.  Liveness of recv: when the transport goes on delivering the bytes  *)
(* of a well-formed frame, at least one byte a read, and the caller calls   *)
(* recv again after every cancellation, recv eventually returns the frame's *)
(* Message; each successful read moves bytes_read up, by what it read,      *)
(* towards the end of the header and then of the frame.                     *)
(***************************************************************************)
\* a step in which a read of recv returned bytes
ReadStep == pc \in {"hdr", "body"} /\ rpos' > rpos

\* the k-th frame written was returned as the k-th result
ReturnedFrame(k) ==
    /\ Len(written) >= k /\ Len(results) >= k
    /\ results[k] = Res("Some", written[k].frame)

RecvEventuallyReturns ==
    /\ [][ReadStep
            => \/ /\ bytes_read' = bytes_read + (rpos' - rpos)
                  /\ bytes_read' <= partial_len'
                  /\ taken' = taken
               \/ /\ bytes_read' = 0
                  /\ Len(taken') = Len(taken) + 1
                  /\ Len(taken'[Len(taken')]) = bytes_read + (rpos' - rpos)]_vars
    /\ []<>(\A k \in 1..Len(written) : ReturnedFrame(k))

\* a frame with a body was returned after calls were dropped in its header and its body
ReturnedDespiteCancels ==
    /\ cancelled = {"hdr", "body"}
    /\ Len(written) = 2
    /\ written[2].frame = MsgB
    /\ ReturnedFrame(2)

=============================================================================
